---------------------------- MODULE Spec2Model ----------------------------
(***************************************************************************)
(* predict: the CVE lookup of predict/cve.py (get_cve, scrape_cve,         *)
(* process_cve and the link classifiers), its caller cve_base of           *)
(* predict/views.py, and the annotation pipeline of conflict_resolution    *)
(* in predict/views.py.                                                    *)
(*                                                                         *)
(* A Python str is a sequence of one-character strings.                    *)
(***************************************************************************)
EXTENDS Integers, Sequences, FiniteSets, TLC

(***************************************************************************)
(* Bounds of the model.                                                    *)
(***************************************************************************)
\* longest list of reference links an upstream answer carries
MaxLinks == 2
\* most annotation groups handed to the resolution loop
MaxGroups == 2
\* most annotation rows in one group
MaxGroupLen == 2

(***************************************************************************)
(* Characters and string helpers.                                          *)
(***************************************************************************)
Lower == <<"a","b","c","d","e","f","g","h","i","j","k","l","m","n","o","p","q","r","s","t","u","v","w","x","y","z">>
UpperL == <<"A","B","C","D","E","F","G","H","I","J","K","L","M","N","O","P","Q","R","S","T","U","V","W","X","Y","Z">>
Digits == {"0","1","2","3","4","5","6","7","8","9"}
Letters == {Lower[i] : i \in DOMAIN Lower} \cup {UpperL[i] : i \in DOMAIN UpperL}

Range(s) == {s[i] : i \in DOMAIN s}

SetMin(S) == CHOOSE x \in S : \A y \in S : x <= y

SetMax(S) == CHOOSE x \in S : \A y \in S : x >= y

\* str.find(c, from): the first index >= from holding a character of cs, 0 if none
Find(s, cs, from) ==
  LET I == {i \in from..Len(s) : s[i] \in cs}
  IN IF I = {} THEN 0 ELSE SetMin(I)

\* str.rfind(c): the last index holding c, 0 if none
RFind(s, c) ==
  LET I == {i \in 1..Len(s) : s[i] = c}
  IN IF I = {} THEN 0 ELSE SetMax(I)

\* s[from:] (1-based, inclusive)
From(s, from) == SubSeq(s, from, Len(s))

\* s.startswith(p) at position i
StartsAt(s, p, i) ==
  /\ i + Len(p) - 1 <= Len(s)
  /\ \A j \in 1..Len(p) : s[i + j - 1] = p[j]

\* `sub in s`
Contains(s, sub) == \E i \in 1..(Len(s) + 1) : StartsAt(s, sub, i)

\* the length of the longest run of characters of class cs starting at i
RunLen(s, i, cs) ==
  IF i > Len(s) THEN 0
  ELSE SetMax({n \in 0..(Len(s) - i + 1) :
                 \A j \in i..(i + n - 1) : s[j] \in cs})

\* a regular expression's `$`: at the end, or just before a final newline
AtDollar(s, i) == i = Len(s) + 1 \/ (i = Len(s) /\ s[i] = "\n")

\* str.upper() on the characters of the model
UpperChar(c) ==
  IF \E i \in DOMAIN Lower : Lower[i] = c
  THEN UpperL[CHOOSE i \in DOMAIN Lower : Lower[i] = c]
  ELSE c

Upper(s) == [i \in DOMAIN s |-> UpperChar(s[i])]

None == "None"

(***************************************************************************)
(* is_valid_cve_id: cve_pattern = ^CVE-\d{4}-\d{4,7}$ under re.match.      *)
(***************************************************************************)
CveYearDigits == 4
CveSeqMin == 4
CveSeqMax == 7

cve_pattern_match(s) ==
  /\ StartsAt(s, <<"C","V","E","-">>, 1)
  /\ RunLen(s, 5, Digits) >= CveYearDigits
  /\ StartsAt(s, <<"-">>, 5 + CveYearDigits)
  /\ LET n == RunLen(s, 6 + CveYearDigits, Digits)
     IN \E m \in CveSeqMin..CveSeqMax :
          m <= n /\ AtDollar(s, 6 + CveYearDigits + m)

is_valid_cve_id(cve_id) == cve_pattern_match(cve_id)

(***************************************************************************)
(* urllib.parse.urlparse, as far as process_cve reads its result: netloc,  *)
(* path, params, query, and the ValueError of an unbalanced bracket in the *)
(* netloc.                                                                 *)
(***************************************************************************)
SchemeChars == Letters \cup Digits \cup {"+", "-", "."}

\* urlsplit's scheme: url[:i] for the first ':' when it is a scheme
SchemeEnd(url) ==
  LET i == Find(url, {":"}, 1)
  IN IF /\ i > 1
        /\ url[1] \in Letters
        /\ \A j \in 1..(i - 1) : url[j] \in SchemeChars
     THEN i ELSE 0

\* urlparse's _splitparams on the path of an http(s) URL
SplitParams(path) ==
  LET slash == RFind(path, "/")
      i == Find(path, {";"}, IF slash = 0 THEN 1 ELSE slash)
  IN IF i = 0
     THEN [path |-> path, params |-> <<>>]
     ELSE [path |-> SubSeq(path, 1, i - 1), params |-> From(path, i + 1)]

urlparse(url) ==
  LET se == SchemeEnd(url)
      scheme == IF se = 0 THEN <<>> ELSE SubSeq(url, 1, se - 1)
      rest == IF se = 0 THEN url ELSE From(url, se + 1)
      hasNet == StartsAt(rest, <<"/","/">>, 1)
      netEnd == IF hasNet
                THEN (LET d == Find(rest, {"/", "?", "#"}, 3)
                      IN IF d = 0 THEN Len(rest) + 1 ELSE d)
                ELSE 1
      netloc == IF hasNet THEN SubSeq(rest, 3, netEnd - 1) ELSE <<>>
      rest2 == From(rest, netEnd)
      hash == Find(rest2, {"#"}, 1)
      rest3 == IF hash = 0 THEN rest2 ELSE SubSeq(rest2, 1, hash - 1)
      q == Find(rest3, {"?"}, 1)
      rawpath == IF q = 0 THEN rest3 ELSE SubSeq(rest3, 1, q - 1)
      query == IF q = 0 THEN <<>> ELSE From(rest3, q + 1)
      usesParams == Upper(scheme) \in {<<"H","T","T","P">>, <<"H","T","T","P","S">>, <<>>}
      sp == IF usesParams THEN SplitParams(rawpath)
            ELSE [path |-> rawpath, params |-> <<>>]
  IN IF ("[" \in Range(netloc)) # ("]" \in Range(netloc))
     THEN [error |-> "ValueError"]
     ELSE [error |-> None, netloc |-> netloc, path |-> sp.path,
           params |-> sp.params, query |-> query]


(***************************************************************************)
(* urllib.parse.parse_qs(query) with its defaults (no blank values, no     *)
(* strict parsing).  The separators are the interpreter's: '&' and ';'     *)
(* before Python 3.9.2 / 3.8.8 / 3.7.10 / 3.6.13, '&' alone from then on.  *)
(* The links of the model carry no '%', so unquote only turns '+' into a   *)
(* space.                                                                  *)
(***************************************************************************)
RECURSIVE Split(_, _)
Split(s, seps) ==
  LET i == Find(s, seps, 1)
  IN IF i = 0 THEN <<s>>
     ELSE <<SubSeq(s, 1, i - 1)>> \o Split(From(s, i + 1), seps)

PlusToSpace(s) == [i \in DOMAIN s |-> IF s[i] = "+" THEN " " ELSE s[i]]

\* parse_qsl: the (name, value) pairs in order
RECURSIVE QslOf(_)
QslOf(pairs) ==
  IF pairs = <<>> THEN <<>>
  ELSE LET nv == Head(pairs)
           eq == Find(nv, {"="}, 1)
           keep == eq # 0 /\ eq < Len(nv)
       IN (IF keep
           THEN << <<PlusToSpace(SubSeq(nv, 1, eq - 1)),
                     PlusToSpace(From(nv, eq + 1))>> >>
           ELSE <<>>) \o QslOf(Tail(pairs))

RECURSIVE ValuesOf(_, _)
ValuesOf(qsl, name) ==
  IF qsl = <<>> THEN <<>>
  ELSE (IF Head(qsl)[1] = name THEN <<Head(qsl)[2]>> ELSE <<>>)
       \o ValuesOf(Tail(qsl), name)

\* the dict of parse_qs: each name to the list of its values
parse_qs(query, seps) ==
  LET qsl == QslOf(Split(query, seps))
  IN [name \in {qsl[i][1] : i \in DOMAIN qsl} |-> ValuesOf(qsl, name)]

(***************************************************************************)
(* flask.url_for("main.info_page", ...): the route of info_page,           *)
(* /cve/<cve_id>/info/<repo_user>/<repo_name>/<commit>.                    *)
(***************************************************************************)
url_for(cve_id, repo_user, repo_name, commit) ==
  <<"/","c","v","e","/">> \o cve_id \o <<"/","i","n","f","o","/">> \o repo_user \o <<"/">> \o repo_name
    \o <<"/">> \o commit

(***************************************************************************)
(* github_pattern under re.match:                                          *)
(*   \/?([A-Za-z0-9\-]+)\/([A-Za-z0-9\-]+)\/commit\/([0-9a-f]{5,40})\/?$   *)
(***************************************************************************)
HashMin == 5
HashMax == 40

NameChars == Letters \cup Digits \cup {"-"}
HexLower == Digits \cup {"a", "b", "c", "d", "e", "f"}

\* the groups (owner, repo, hash) of the match, or <<>> for no match.  The optional
\* leading slash is taken when it is there: without it the first group would
\* have to start on the slash.  Neither name class holds '/', so each group
\* is the whole run up to the next slash.
github_pattern_match(path) ==
  LET o == IF StartsAt(path, <<"/">>, 1) THEN 2 ELSE 1
      on == RunLen(path, o, NameChars)
      r == o + on + 1
      rn == RunLen(path, r, NameChars)
      c == r + rn
      h == c + Len(<<"/","c","o","m","m","i","t","/">>)
      hn == RunLen(path, h, HexLower)
      lens == {n \in HashMin..HashMax :
                 /\ n <= hn
                 /\ \/ AtDollar(path, h + n)
                    \/ (StartsAt(path, <<"/">>, h + n) /\ AtDollar(path, h + n + 1))}
  IN IF /\ on >= 1
        /\ StartsAt(path, <<"/">>, o + on)
        /\ rn >= 1
        /\ StartsAt(path, <<"/","c","o","m","m","i","t","/">>, c)
        /\ lens # {}
     THEN <<SubSeq(path, o, o + on - 1), SubSeq(path, r, r + rn - 1),
            SubSeq(path, h, h + SetMax(lens) - 1)>>
     ELSE <<>>

is_github_link(parsed_link) ==
  /\ parsed_link.netloc \in {<<"g","i","t","h","u","b",".","c","o","m">>, <<"w","w","w",".","g","i","t","h","u","b",".","c","o","m">>}
  /\ github_pattern_match(parsed_link.path) # <<>>

convert_github_link(cve_id, parsed_link) ==
  LET match == github_pattern_match(parsed_link.path)
  IN url_for(cve_id, match[1], match[2], match[3])

(***************************************************************************)
(* known_repositories and the mirror rule.                                 *)
(***************************************************************************)
known_hosts ==
  {<<"g","i","t",".","q","e","m","u",".","o","r","g">>, <<"g","i","t",".","o","p","e","n","s","s","l",".","o","r","g">>, <<"g","i","t",".","k","e","r","n","e","l",".","o","r","g">>,
   <<"g","i","t",".","v","i","d","e","o","l","a","n",".","o","r","g">>, <<"g","i","t",".","l","i","b","a","v",".","o","r","g">>, <<"l","i","b","v","i","r","t",".","o","r","g">>}

known_repositories(host) ==
  CASE host = <<"g","i","t",".","q","e","m","u",".","o","r","g">> -> <<<<"q","e","m","u">>, <<"q","e","m","u">>>>
    [] host = <<"g","i","t",".","o","p","e","n","s","s","l",".","o","r","g">> -> <<<<"o","p","e","n","s","s","l">>, <<"o","p","e","n","s","s","l">>>>
    [] host = <<"g","i","t",".","k","e","r","n","e","l",".","o","r","g">> -> <<<<"t","o","r","v","a","l","d","s">>, <<"l","i","n","u","x">>>>
    [] host = <<"g","i","t",".","v","i","d","e","o","l","a","n",".","o","r","g">> -> <<<<"F","F","m","p","e","g">>, <<"F","F","m","p","e","g">>>>
    [] host = <<"g","i","t",".","l","i","b","a","v",".","o","r","g">> -> <<<<"l","i","b","a","v">>, <<"l","i","b","a","v">>>>
    [] host = <<"l","i","b","v","i","r","t",".","o","r","g">> -> <<<<"l","i","b","v","i","r","t">>, <<"l","i","b","v","i","r","t">>>>

is_git_link(parsed_link, seps) ==
  LET query == parse_qs(parsed_link.query, seps)
  IN IF <<"a">> \notin DOMAIN query THEN FALSE
     ELSE /\ parsed_link.netloc \in known_hosts
          /\ Contains(query[<<"a">>][1], <<"c","o","m","m","i","t">>)

\* the converted link; query["h"] raises KeyError when the query has no "h"
convert_git_link(cve_id, parsed_link, seps) ==
  LET query == parse_qs(parsed_link.query, seps)
      repo == known_repositories(parsed_link.netloc)
  IN IF <<"h">> \notin DOMAIN query THEN [error |-> "KeyError"]
     ELSE [error |-> None,
           url |-> url_for(cve_id, repo[1], repo[2], query[<<"h">>][1])]


(***************************************************************************)
(* The inputs of the CVE lookup.                                           *)
(***************************************************************************)
\* identifiers a request may carry
RawIds ==
  {<<"C","V","E","-","2","0","2","1","-","1","2","3","4","5">>, <<"c","v","e","-","2","0","2","1","-","1","2","3","4","5">>, <<"C","V","E","-","2","0","2","1","-","1","2","3","4","\n">>,
   <<"C","V","E","-","2","1","-","1","2","3","4","5">>, <<"C","V","E","-","2","0","2","1","-","1","2","3">>, <<"C","V","E","-","2","0","2","1","-","1","2","3","4","5","6","7","8">>,
   <<"X","C","V","E","-","2","0","2","1","-","1","2","3","4">>, <<"C","V","E","-","2","0","2","1","-","1","2","3","4","x">>, <<"C","V","E"," ","2","0","2","1"," ","1","2","3","4">>, <<>>}

Hex41 == <<"0","1","2","3","4","5","6","7","8","9","a","b","c","d","e","f","0","1","2","3","4","5","6","7","8","9","a","b","c","d","e","f","0","1","2","3","4","5","6","7","8">>

\* reference links an upstream answer may carry
RawLinks ==
  {<<"h","t","t","p","s",":","/","/","g","i","t","h","u","b",".","c","o","m","/","f","o","o","/","b","a","r","/","c","o","m","m","i","t","/","a","b","c","d","e","f","1">>,
   <<"h","t","t","p","s",":","/","/","w","w","w",".","g","i","t","h","u","b",".","c","o","m","/","f","o","o","/","b","a","r","/","c","o","m","m","i","t","/","a","b","c","d","e","/">>,
   <<"h","t","t","p","s",":","/","/","g","i","t","h","u","b",".","c","o","m","/","f","o","o","/","b","a","r","/","c","o","m","m","i","t","/","a","b","c","d">>,
   <<"h","t","t","p","s",":","/","/","g","i","t","h","u","b",".","c","o","m","/","f","o","o","/","b","a","r","/","c","o","m","m","i","t","/">> \o Hex41,
   <<"h","t","t","p","s",":","/","/","g","i","t","h","u","b",".","c","o","m","/","f","o","o","/","b","a","r","/","c","o","m","m","i","t","/","A","B","C","D","E","F","1">>,
   <<"h","t","t","p","s",":","/","/","g","i","t","h","u","b",".","c","o","m","/","x","/","f","o","o","/","b","a","r","/","c","o","m","m","i","t","/","a","b","c","d","e","f","1">>,
   <<"h","t","t","p","s",":","/","/","g","i","t","h","u","b",".","c","o","m","/","f","o","o","/","b",".","r","/","c","o","m","m","i","t","/","a","b","c","d","e","f","1">>,
   <<"h","t","t","p","s",":","/","/","g","i","t","h","u","b",".","c","o","m","/","f","o","o","/","b","a","r","/","c","o","m","m","i","t","/","a","b","c","d","e","f","1","#","d","i","f","f">>,
   <<"h","t","t","p","s",":","/","/","e","x","a","m","p","l","e",".","c","o","m","/","f","o","o","/","b","a","r","/","c","o","m","m","i","t","/","a","b","c","d","e","f","1">>,
   <<"h","t","t","p","s",":","/","/","e","x","a","m","p","l","e",".","c","o","m","/","p","a","t","c","h",".","d","i","f","f">>,
   <<"h","t","t","p","s",":","/","/","g","i","t",".","k","e","r","n","e","l",".","o","r","g","/","?","a","=","c","o","m","m","i","t","&","h","=","d","e","a","d","b","e","e","f">>,
   <<"h","t","t","p","s",":","/","/","g","i","t",".","k","e","r","n","e","l",".","o","r","g","/","?","a","=","c","o","m","m","i","t",";","h","=","d","e","a","d","b","e","e","f">>,
   <<"h","t","t","p","s",":","/","/","g","i","t",".","k","e","r","n","e","l",".","o","r","g","/","?","a","=","c","o","m","m","i","t">>,
   <<"h","t","t","p","s",":","/","/","g","i","t",".","k","e","r","n","e","l",".","o","r","g","/","?","h","=","d","e","a","d","b","e","e","f">>,
   <<"h","t","t","p","s",":","/","/","l","i","b","v","i","r","t",".","o","r","g","/","?","p","=","l","i","b","v","i","r","t",".","g","i","t","&","a","=","c","o","m","m","i","t","d","i","f","f","&","h","=","c","a","f","e">>,
   <<"h","t","t","p","s",":","/","/","e","x","a","m","p","l","e",".","c","o","m","/","?","a","=","c","o","m","m","i","t","&","h","=","d","e","a","d","b","e","e","f">>,
   <<"h","t","t","p",":","/","/","[","x">>}

LinkLists == UNION {[1..n -> RawLinks] : n \in 0..MaxLinks}

Desc == <<"A"," ","f","l","a","w",".">>

\* the separators of parse_qs in the interpreters the package runs on
QsSeparators == {{"&", ";"}, {"&"}}

NoValue == [none |-> TRUE]

(***************************************************************************)
(* State.                                                                  *)
(***************************************************************************)
VARIABLES
  pc,        \* where the request /cve/<cve_id> stands
  seps,      \* the separators of this interpreter's parse_qs
  cve_id,    \* get_cve's cve_id
  fetches,   \* requests.get calls made
  upstream,  \* "unset", "absent" (response not ok) or "present"
  entry,     \* the dict scrape_cve built and process_cve works on
  given,     \* the entry as it was handed to process_cve
  links,     \* process_cve's local links
  k,         \* index of the next link of the for loop
  parsed_link, \* process_cve's parsed_link
  cve_data,  \* get_cve's return value in cve_base
  err,       \* the exception that left the request, or None
  view,      \* what cve_base answered
  rpc,          \* where the request /resolution stands
  blocks,       \* what splitByCveId returned
  g,            \* index of the block the outer loop is at
  block,        \* the block being worked on
  currUserEntry,\* conflict_resolution's currUserEntry
  i,            \* the inner loop's index (1-based)
  newEntries,   \* the entries handed to the template
  rerr          \* the exception that left /resolution, or None

cveVars == <<pc, seps, cve_id, fetches, upstream, entry, given, links, k,
             parsed_link, cve_data, err, view>>

resVars == <<rpc, blocks, g, block, currUserEntry, i, newEntries, rerr>>

vars == <<cveVars, resVars>>

Init ==
  /\ pc = "idle"
  /\ seps \in QsSeparators
  /\ cve_id = <<>>
  /\ fetches = 0
  /\ upstream = "unset"
  /\ entry = NoValue
  /\ given = NoValue
  /\ links = <<>>
  /\ k = 0
  /\ parsed_link = NoValue
  /\ cve_data = NoValue
  /\ err = None
  /\ view = None
  /\ rpc = "idle"
  /\ blocks = <<>>
  /\ g = 0
  /\ block = <<>>
  /\ currUserEntry = NoValue
  /\ i = 0
  /\ newEntries = <<>>
  /\ rerr = None

(***************************************************************************)
(* cve_base and get_cve.                                                   *)
(***************************************************************************)
\* views.py:273, cve_base calls get_cve(cve_id)
CveBaseCall ==
  /\ pc = "idle"
  /\ \E id \in RawIds : cve_id' = id
  /\ pc' = "upper"
  /\ UNCHANGED <<seps, fetches, upstream, entry, given, links, k,
                 parsed_link, cve_data, err, view>>
  /\ UNCHANGED resVars

\* cve.py:22
GetCveUpper ==
  /\ pc = "upper"
  /\ cve_id' = Upper(cve_id)
  /\ pc' = "validate"
  /\ UNCHANGED <<seps, fetches, upstream, entry, given, links, k,
                 parsed_link, cve_data, err, view>>
  /\ UNCHANGED resVars

\* GetCveValidate with the check of cve.py:23 left out: every identifier
\* goes on to scrape_cve
GetCveValidate_Unchecked ==
  /\ pc = "validate"
  /\ pc' = "scrape"
  /\ UNCHANGED <<seps, cve_id, fetches, upstream, entry, given, links, k,
                 parsed_link, cve_data, err, view>>
  /\ UNCHANGED resVars

\* cve.py:23 and, for an invalid identifier, cve.py:28
GetCveValidate ==
  /\ pc = "validate"
  /\ IF is_valid_cve_id(cve_id)
     THEN pc' = "scrape" /\ UNCHANGED cve_data
     ELSE pc' = "respond" /\ cve_data' = NoValue
  /\ UNCHANGED <<seps, cve_id, fetches, upstream, entry, given, links, k,
                 parsed_link, err, view>>
  /\ UNCHANGED resVars

\* cve.py:24-25 with scrape_cve, cve.py:42-58: one requests.get; a response
\* that is not ok gives None, which get_cve returns (cve.py:28); a response
\* that is ok carries a description and a list of reference urls
ScrapeCve ==
  /\ pc = "scrape"
  /\ fetches' = fetches + 1
  /\ \/ /\ upstream' = "absent"
        /\ cve_data' = NoValue
        /\ pc' = "respond"
        /\ UNCHANGED entry
     \/ \E ls \in LinkLists :
          /\ upstream' = "present"
          /\ entry' = [id |-> cve_id, desc |-> Desc, links |-> ls]
          /\ pc' = "process"
          /\ UNCHANGED cve_data
  /\ UNCHANGED <<seps, cve_id, given, links, k, parsed_link, err, view>>
  /\ UNCHANGED resVars

(***************************************************************************)
(* process_cve.                                                            *)
(***************************************************************************)
\* cve.py:80-89, the rest of the loop's body for one parsed link: the list
\* the link goes to, or the exception that leaves the loop
process_link(cve_id_, link, parsed, seps_) ==
  IF is_github_link(parsed)
  THEN [to |-> "git_links",
        item |-> <<link, convert_github_link(cve_id_, parsed)>>]
  ELSE IF is_git_link(parsed, seps_)
  THEN IF convert_git_link(cve_id_, parsed, seps_).error # None
       THEN [to |-> "raise",
             error |-> convert_git_link(cve_id_, parsed, seps_).error]
       ELSE [to |-> "git_links",
             item |-> <<link, convert_git_link(cve_id_, parsed, seps_).url>>]
  ELSE [to |-> "normal_links", item |-> link]

\* process_cve_begin without the del of cve.py:73
process_cve_begin_keeping_links(e) ==
  [id |-> e.id, desc |-> e.desc, links |-> e.links, git_links |-> <<>>,
   normal_links |-> <<>>]

\* cve.py:71-76: links taken out of the entry, the two lists put in
process_cve_begin(e) ==
  [id |-> e.id, desc |-> e.desc, git_links |-> <<>>, normal_links |-> <<>>]

\* cve.py:26 calls process_cve(raw_cve); cve.py:71-76
ProcessCveBegin ==
  /\ pc = "process"
  /\ given' = entry
  /\ links' = entry.links
  /\ entry' = process_cve_begin(entry)
  /\ k' = 1
  /\ pc' = "loop"
  /\ UNCHANGED <<seps, cve_id, fetches, upstream, parsed_link, cve_data, err,
                 view>>
  /\ UNCHANGED resVars

\* cve.py:78-79: the next link is parsed; urlparse may raise ValueError
ProcessCveParse ==
  /\ pc = "loop"
  /\ k <= Len(links)
  /\ \E parsed \in {urlparse(links[k])} :
       IF parsed.error # None
       THEN /\ err' = parsed.error
            /\ pc' = "raised"
            /\ UNCHANGED parsed_link
       ELSE /\ parsed_link' = parsed
            /\ pc' = "classify"
            /\ UNCHANGED err
  /\ UNCHANGED <<seps, cve_id, fetches, upstream, entry, given, links, k,
                 cve_data, view>>
  /\ UNCHANGED resVars

\* cve.py:80-89: the parsed link is put in a list
ProcessCveClassify ==
  /\ pc = "classify"
  /\ \E r \in {process_link(entry.id, links[k], parsed_link, seps)} :
       \/ /\ r.to = "raise"
          /\ err' = r.error
          /\ pc' = "raised"
          /\ UNCHANGED <<entry, k>>
       \/ /\ r.to = "git_links"
          /\ entry' = [entry EXCEPT !.git_links = Append(@, r.item)]
          /\ k' = k + 1
          /\ pc' = "loop"
          /\ UNCHANGED err
       \/ /\ r.to = "normal_links"
          /\ entry' = [entry EXCEPT !.normal_links = Append(@, r.item)]
          /\ k' = k + 1
          /\ pc' = "loop"
          /\ UNCHANGED err
  /\ UNCHANGED <<seps, cve_id, fetches, upstream, given, links, parsed_link,
                 cve_data, view>>
  /\ UNCHANGED resVars

\* cve.py:91 and cve.py:26: the entry itself is what get_cve returns
ProcessCveReturn ==
  /\ pc = "loop"
  /\ k > Len(links)
  /\ cve_data' = entry
  /\ pc' = "respond"
  /\ UNCHANGED <<seps, cve_id, fetches, upstream, entry, given, links, k,
                 parsed_link, err, view>>
  /\ UNCHANGED resVars

\* views.py:275-278: cve_data.get(...) on None raises AttributeError; a
\* record with git links redirects to the first converted link, any other
\* record renders the sidebar
CveBaseRespond ==
  /\ pc = "respond"
  /\ IF cve_data = NoValue
     THEN err' = "AttributeError" /\ pc' = "raised" /\ UNCHANGED view
     ELSE /\ view' = IF Len(cve_data.git_links) > 0
                     THEN "redirect" ELSE "render"
          /\ pc' = "done"
          /\ UNCHANGED err
  /\ UNCHANGED <<seps, cve_id, fetches, upstream, entry, given, links, k,
                 parsed_link, cve_data>>
  /\ UNCHANGED resVars

Next ==
  \/ CveBaseCall
  \/ GetCveUpper
  \/ GetCveValidate
  \/ ScrapeCve
  \/ ProcessCveBegin
  \/ ProcessCveParse
  \/ ProcessCveClassify
  \/ ProcessCveReturn
  \/ CveBaseRespond

Spec == Init /\ [][Next]_vars

(***************************************************************************)
(* conflict_resolution, views.py:250-267.  Its helpers live in             *)
(* predict.conflict_resolution: splitByCveId hands the loop the annotation *)
(* groups, moveUserToFront promotes the focal user's entry, appendURLs     *)
(* derives the two links of an entry, insertAgreements compares an entry   *)
(* with the baseline entry, insertPercentages scores the block.            *)
(***************************************************************************)
currentUser == "jbelke"

CveIds == <<"CVE-1234-5678", "CVE-8765-4321", "CVE-867-5309", "CVE-0000-0000">>

\* the annotations of users on one vulnerability (views.py:128-167)
Annotations ==
  {[username |-> "tgiddings", repo_name |-> "thisisareponame",
    repo_user |-> "thisisarepouser", fix_commit |-> "3k432k4h",
    fix_file |-> "fix_file1.cpp", intro_commit |-> "98018927",
    intro_file |-> "intro_file2.cpp"],
   [username |-> "jbelke", repo_name |-> "thisisareponame",
    repo_user |-> "thisisarepouser", fix_commit |-> "3k432k4h",
    fix_file |-> "fix_file1.cpp", intro_commit |-> "09sdf09sf",
    intro_file |-> "intro_file1.cpp"],
   [username |-> "rmorrison", repo_name |-> "thisisareponame",
    repo_user |-> "thisisarepouser", fix_commit |-> "ihg6yhud",
    fix_file |-> "fix_file2.cpp", intro_commit |-> "21b9de987ac",
    intro_file |-> "intro_file1.cpp"],
   [username |-> "cwolff", repo_name |-> "thisisareponame",
    repo_user |-> "thisisarepouser", fix_commit |-> "ihg6yhud",
    fix_file |-> "fix_file2.cpp", intro_commit |-> "21b9de987ac",
    intro_file |-> "intro_file1.cpp"]}

\* an annotation as the row of vulnerability cve
Row(cve, a) ==
  [cve_id |-> cve, username |-> a.username, repo_name |-> a.repo_name,
   repo_user |-> a.repo_user, fix_commit |-> a.fix_commit,
   fix_file |-> a.fix_file, intro_commit |-> a.intro_commit,
   intro_file |-> a.intro_file]

\* the groups of one vulnerability: at most one row a user, possibly none
Groups(cve) ==
  UNION {{[j \in 1..n |-> Row(cve, s[j])] :
            s \in {t \in [1..n -> Annotations] :
                     \A a, b \in 1..n : a # b => t[a].username # t[b].username}}
         : n \in 0..MaxGroupLen}

\* what splitByCveId may return: one group a vulnerability, in first-seen
\* order
splitByCveId ==
  UNION {{bs \in [1..n -> UNION {Groups(CveIds[c]) : c \in 1..n}] :
            \A j \in 1..n : bs[j] \in Groups(CveIds[j])}
         : n \in 0..MaxGroups}

\* a stable move-to-front of the entry of user; the block as it is when the
\* user has none
moveUserToFront(b, user) ==
  LET at == {j \in DOMAIN b : b[j].username = user}
  IN IF at = {} THEN b
     ELSE LET m == SetMin(at)
          IN <<b[m]>> \o SubSeq(b, 1, m - 1) \o SubSeq(b, m + 1, Len(b))

\* the arguments the routing function gets for a commit of an entry
RouteArgs(e, commit, file) ==
  [cve_id |-> e.cve_id, repo_user |-> e.repo_user, repo_name |-> e.repo_name,
   commit |-> commit, file_name |-> file]

Extend(e, more) ==
  [f \in DOMAIN e \cup DOMAIN more |-> IF f \in DOMAIN more THEN more[f] ELSE e[f]]

appendURLs(e) ==
  Extend(e, [fix_link |-> RouteArgs(e, e.fix_commit, e.fix_file),
             intro_link |-> RouteArgs(e, e.intro_commit, e.intro_file)])

insertAgreements(e, baseline) ==
  Extend(e, [fix_matches |-> e.fix_commit = baseline.fix_commit
                             /\ e.fix_file = baseline.fix_file,
             intro_matches |-> e.intro_commit = baseline.intro_commit
                               /\ e.intro_file = baseline.intro_file])

\* 100 * agreeing / others over the entries after the first, 100 when there
\* are none
insertPercentages(b) ==
  LET others == {j \in DOMAIN b : j > 1}
      agreeing == {j \in others : b[j].fix_matches /\ b[j].intro_matches}
      pct == IF others = {} THEN 100
             ELSE (100 * Cardinality(agreeing)) \div Cardinality(others)
  IN [j \in DOMAIN b |-> Extend(b[j], [percentage |-> pct])]

\* views.py:250-252
ResolutionCall ==
  /\ rpc = "idle"
  /\ \E bs \in splitByCveId : blocks' = bs
  /\ newEntries' = <<>>
  /\ g' = 1
  /\ rpc' = "block"
  /\ UNCHANGED <<block, currUserEntry, i, rerr>>
  /\ UNCHANGED cveVars

\* views.py:253-255: block[0] of an empty block raises IndexError
ResolvePromote ==
  /\ rpc = "block"
  /\ g <= Len(blocks)
  /\ LET moved == moveUserToFront(blocks[g], currentUser)
     IN /\ block' = moved
        /\ IF moved = <<>>
           THEN rerr' = "IndexError" /\ rpc' = "raised"
                /\ UNCHANGED <<currUserEntry, i>>
           ELSE currUserEntry' = moved[1] /\ i' = 1 /\ rpc' = "entries"
                /\ UNCHANGED rerr
  /\ UNCHANGED <<blocks, g, newEntries>>
  /\ UNCHANGED cveVars

\* views.py:256-261, one iteration
ResolveEntry ==
  /\ rpc = "entries"
  /\ i <= Len(block)
  /\ LET withURLs == appendURLs(block[i])
     IN block' = [block EXCEPT ![i] =
                    IF i # 1 THEN insertAgreements(withURLs, currUserEntry)
                    ELSE withURLs]
  /\ i' = i + 1
  /\ UNCHANGED <<rpc, blocks, g, currUserEntry, newEntries, rerr>>
  /\ UNCHANGED cveVars

\* views.py:262-263
ResolveFinish ==
  /\ rpc = "entries"
  /\ i > Len(block)
  /\ block' = insertPercentages(block)
  /\ newEntries' = newEntries \o block'
  /\ g' = g + 1
  /\ rpc' = "block"
  /\ UNCHANGED <<blocks, currUserEntry, i, rerr>>
  /\ UNCHANGED cveVars

\* views.py:264-267
ResolutionRender ==
  /\ rpc = "block"
  /\ g > Len(blocks)
  /\ rpc' = "rendered"
  /\ UNCHANGED <<blocks, g, block, currUserEntry, i, newEntries, rerr>>
  /\ UNCHANGED cveVars

NextResolution ==
  \/ ResolutionCall
  \/ ResolvePromote
  \/ ResolveEntry
  \/ ResolveFinish
  \/ ResolutionRender

SpecResolution == Init /\ [][NextResolution]_vars

(***************************************************************************)
(* Properties of the CVE lookup (checked under Spec).                      *)
(***************************************************************************)
\* process_cve has been entered
InProcess == given # NoValue

\* get_cve has handed cve_base a record
Returned == pc \in {"respond", "done"} /\ cve_data # NoValue

\* process_cve has raised
ProcessRaised == pc = "raised" /\ err \in {"ValueError", "KeyError"}

\* the loop has come to link j: it placed it, or raised on it
Attempted(j) == InProcess /\ (j < k \/ (j = k /\ ProcessRaised))

OriginalsOf(git_links) == [j \in DOMAIN git_links |-> git_links[j][1]]

\* the elements of s at the indices of I, in order
RECURSIVE Pick(_, _, _)
Pick(s, I, j) ==
  IF j > Len(s) THEN <<>>
  ELSE (IF j \in I THEN <<s[j]>> ELSE <<>>) \o Pick(s, I, j + 1)

\* git and normal split the first n links, each keeping the input order
StablePartition(ls, n, git_links, normal_links) ==
  \E G \in SUBSET (1..n) :
    /\ Pick(SubSeq(ls, 1, n), G, 1) = OriginalsOf(git_links)
    /\ Pick(SubSeq(ls, 1, n), (1..n) \ G, 1) = normal_links

\* C1: an identifier that fails the check (after uppercasing) causes no
\* fetch and no record, and the lookup ends with None; nothing is fetched
\* before the check has been made
C1_ValidationPrecedesFetch ==
  /\ pc \in {"idle", "upper", "validate"} =>
       fetches = 0 /\ upstream = "unset" /\ entry = NoValue
  /\ (pc \notin {"idle", "upper"} /\ ~is_valid_cve_id(cve_id)) =>
       /\ fetches = 0
       /\ upstream = "unset"
       /\ entry = NoValue /\ given = NoValue
       /\ cve_data = NoValue
       /\ pc \in {"validate", "respond", "raised"}
       /\ view = None

C1_Witness ==
  /\ pc = "respond"
  /\ cve_id = <<"C","V","E","-","2","1","-","1","2","3","4","5">>
  /\ cve_data = NoValue
  /\ fetches = 0

\* the query of a link as the interpreter's parse_qs reads it
QueryOf(l) == parse_qs(urlparse(l).query, seps)

\* a link on a known mirror whose query lacks "a" or lacks "h"
MirrorMissingKey(l) ==
  /\ urlparse(l).error = None
  /\ urlparse(l).netloc \in known_hosts
  /\ (<<"a">> \notin DOMAIN QueryOf(l) \/ <<"h">> \notin DOMAIN QueryOf(l))

\* C2: a known-mirror link whose query lacks "a" or "h" raises nothing and
\* is kept verbatim in normal_links
C2_MissingKeyIsOpaque ==
  \A j \in 1..Len(links) :
    (Attempted(j) /\ MirrorMissingKey(links[j])) =>
      /\ ~(ProcessRaised /\ j = k)
      /\ links[j] \in Range(entry.normal_links)

\* C3: process_cve raises on no link: each link it comes to is put in
\* git_links (as an original) or in normal_links
C3_ClassificationNeverFails ==
  /\ ~ProcessRaised
  /\ \A j \in 1..Len(links) :
       Attempted(j) =>
         \/ links[j] \in Range(OriginalsOf(entry.git_links))
         \/ links[j] \in Range(entry.normal_links)

\* C4: once process_cve is over, git_links and normal_links are a stable
\* partition of all the input links (nothing dropped, merged or reordered),
\* and no link satisfies both the GitHub rule and the mirror rule
C4_StablePartition ==
  /\ (Returned \/ ProcessRaised) =>
       /\ Len(entry.git_links) + Len(entry.normal_links) = Len(given.links)
       /\ StablePartition(given.links, Len(given.links), entry.git_links,
                          entry.normal_links)
  /\ \A j \in 1..Len(links) :
       urlparse(links[j]).error = None =>
         ~(is_github_link(urlparse(links[j]))
           /\ is_git_link(urlparse(links[j]), seps))

\* the path /{owner}/{repo}/commit/{hash}, an optional slash after it: its
\* segments
Segments(path) ==
  LET segs == Split(path, {"/"})
  IN IF Len(segs) = 6 /\ segs[6] = <<>> THEN SubSeq(segs, 1, 5) ELSE segs

\* the shape C5 gives a GitHub-direct commit link
GitHubShape(l) ==
  /\ urlparse(l).error = None
  /\ urlparse(l).netloc \in {<<"g","i","t","h","u","b",".","c","o","m">>, <<"w","w","w",".","g","i","t","h","u","b",".","c","o","m">>}
  /\ LET segs == Segments(urlparse(l).path)
     IN /\ Len(segs) = 5
        /\ segs[1] = <<>>
        /\ segs[2] # <<>> /\ segs[3] # <<>>
        /\ segs[4] = <<"c","o","m","m","i","t">>
        /\ Len(segs[5]) \in HashMin..HashMax
        /\ Range(segs[5]) \subseteq HexLower

GitHubCanonical(id, l) ==
  LET segs == Segments(urlparse(l).path)
  IN url_for(id, segs[2], segs[3], segs[5])

\* C5: a link is taken by the GitHub rule exactly when it has the shape,
\* and its canonical link is then built from the identifier and the owner,
\* repo and hash of the path
C5_GitHubDirectIff ==
  \A j \in 1..Len(links) :
    (Attempted(j) /\ urlparse(links[j]).error = None) =>
      /\ GitHubShape(links[j]) <=> is_github_link(urlparse(links[j]))
      /\ GitHubShape(links[j]) =>
           <<links[j], GitHubCanonical(entry.id, links[j])>>
             \in Range(entry.git_links)

\* the query string of a link with its pairs as gitweb writes them, apart
\* by '&' or ';'
QueryString(l) == parse_qs(urlparse(l).query, {"&", ";"})

\* the link C6 describes: a known host, "a" holding commit, and "h"
MirrorCommit(l) ==
  /\ urlparse(l).error = None
  /\ urlparse(l).netloc \in known_hosts
  /\ <<"a">> \in DOMAIN QueryString(l)
  /\ Contains(QueryString(l)[<<"a">>][1], <<"c","o","m","m","i","t">>)
  /\ <<"h">> \in DOMAIN QueryString(l)

MirrorCanonical(id, l) ==
  LET repo == known_repositories(urlparse(l).netloc)
  IN url_for(id, repo[1], repo[2], QueryString(l)[<<"h">>][1])

\* C6: a link on a known mirror with a=...commit... and h=<hash> becomes a
\* commit link of the table's owner and repo with that hash; a link on any
\* other host is never taken by the mirror rule
C6_KnownMirrorCommit ==
  \A j \in 1..Len(links) :
    Attempted(j) =>
      /\ MirrorCommit(links[j]) =>
           <<links[j], MirrorCanonical(entry.id, links[j])>>
             \in Range(entry.git_links)
      /\ (urlparse(links[j]).error = None
          /\ urlparse(links[j]).netloc \notin known_hosts) =>
           ~is_git_link(urlparse(links[j]), seps)

\* the lookup ended without a record
LookupFailed ==
  \/ pc = "raised"
  \/ pc = "respond" /\ cve_data = NoValue

\* C7: absent upstream data means one fetch, no record and None for the
\* caller; a lookup fails only for an invalid identifier or absent data
C7_OnlyTwoFailures ==
  /\ upstream = "absent" =>
       fetches = 1 /\ entry = NoValue /\ cve_data = NoValue
  /\ fetches <= 1
  /\ LookupFailed => (~is_valid_cve_id(cve_id) \/ upstream = "absent")

\* C8: when process_cve has returned, the entry it was given is as it was
\* at the call
C8_InputUnchanged == Returned => entry = given

\* C8 as amended: process_cve works on the entry in place: it takes links
\* out and puts git_links and normal_links in, leaves id and desc alone, and
\* what it returns is that entry
C8_InPlace ==
  /\ InProcess =>
       /\ DOMAIN entry = {"id", "desc", "git_links", "normal_links"}
       /\ DOMAIN given = {"id", "desc", "links"}
       /\ entry.id = given.id
       /\ entry.desc = given.desc
  /\ Returned => InProcess /\ cve_data = entry

C8_Witness ==
  /\ pc = "done"
  /\ Len(given.links) = MaxLinks
  /\ Len(cve_data.git_links) > 0
  /\ Len(cve_data.normal_links) > 0

(***************************************************************************)
(* Properties of the resolution loop (checked under SpecResolution).       *)
(***************************************************************************)
\* an entry without what the loop derived
Bare(e) ==
  [f \in DOMAIN e \ {"fix_link", "intro_link", "fix_matches",
                     "intro_matches", "percentage"} |-> e[f]]

HasFlags(e) == "fix_matches" \in DOMAIN e \/ "intro_matches" \in DOMAIN e

FocalAt(b) == {j \in DOMAIN b : b[j].username = currentUser}

CveIdsOf(es) == [j \in DOMAIN es |-> es[j].cve_id]

RECURSIVE Flatten(_)
Flatten(bs) == IF bs = <<>> THEN <<>> ELSE Head(bs) \o Flatten(Tail(bs))

=============================================================================
